---- MODULE Spec2Model ----
(***************************************************************************)
(* A model of the next-bus resolution script (src/unnamed/part_001, the    *)
(* later revision of src/index.ts): the four request stages against the    *)
(* OneBusAway API, the preparation of the NextDeparture lists and the      *)
(* rendering of the report.                                                *)
(*                                                                         *)
(* A JavaScript object is a TLA+ record: a property that is absent (or     *)
(* undefined) is a field that is not in the record's DOMAIN.  An array is  *)
(* a sequence.  Every API response arrives as a nondeterministic choice    *)
(* from a bounded set of envelopes.                                        *)
(***************************************************************************)
EXTENDS Integers, Sequences, FiniteSets, TLC

VARIABLES
    pc,                     \* position of the top-level script
    requests,               \* the requests issued to the API client so far, in order
    response,               \* the envelope most recently received
    agency,                 \* const agency  (part_001:177)
    route,                  \* const route   (part_001:185)
    stopRefs,               \* const stopRefs  (part_001:196)
    stops,                  \* const stops: Stop[]  (part_001:205)
    departures,             \* const departures: StopDepartures[]  (part_001:228)
    stopName,               \* const stopName  (part_001:276)
    depIdx,                 \* entries of departures.forEach already visited (part_001:278)
    nextDepartures,         \* the nextDepartures array of the last visited entry (part_001:285)
    groupToNextDepartures,  \* Record<string, NextDeparture[]> as ordered <<key, value>> pairs
    output,                 \* the text printed by console.log(output): a sequence of lines
    error,                  \* message of the Error that ended the run, "" if none
    maxDepartures,          \* MAX_DEPARTURES_PER_DIRECTION (part_001:136)
    ms,                     \* argument of a direct formatTimedelta call
    timedelta               \* its result

vars == <<pc, requests, response, agency, route, stopRefs, stops, departures, stopName, depIdx,
          nextDepartures, groupToNextDepartures, output, error, maxDepartures, ms, timedelta>>

----------------------------------------------------------------------------
(* Bounds of the model *)

MaxAgencies == 2        \* agencies in references.agencies
MaxRoutes == 2          \* routes in data.list
MaxDepartures == 2      \* largest configured MAX_DEPARTURES_PER_DIRECTION
MaxRecords == 2         \* arrivalsAndDepartures records per stop (pipeline)
MaxHours == 1           \* largest whole-hour component of a duration

----------------------------------------------------------------------------
(* Configuration: the env vars of one run *)

AGENCY_NAME == "Metro Transit"
ROUTE_SHORTNAME == "5"
STOP_NAME == "Main St"

----------------------------------------------------------------------------
(* JavaScript helpers *)

\* the value of a variable that was never assigned
Undefined == [undefined |-> TRUE]

\* "k" in obj with a value that is neither undefined nor null
Has(obj, k) == k \in DOMAIN obj

\* the object with only the properties ks
Restrict(obj, ks) == [k \in ks |-> obj[k]]

Min(a, b) == IF a < b THEN a ELSE b

\* all arrays over S of length lo..hi
SeqsUpTo(S, lo, hi) == UNION {[1..n -> S] : n \in lo..hi}

\* Array.prototype.find, given the elements that satisfy the test in array
\* order: the first of them, or undefined
Find(matching) == IF Len(matching) = 0 THEN Undefined ELSE matching[1]

\* the concatenation of the arrays f[1], ..., f[n]
RECURSIVE Concat(_, _)
Concat(f, n) == IF n = 0 THEN <<>> ELSE Concat(f, n - 1) \o f[n]

----------------------------------------------------------------------------
(* Envelope validation *)

ThrowIfErrorV1_NoLimitCheck(resp) ==
    \/ ~Has(resp, "data")
    \/ ~Has(resp.data, "list")
    \/ ~Has(resp.data, "references")

\* throwIfErrorV1: TRUE when it throws.  An array is truthy even when empty.
ThrowIfErrorV1(resp) ==
    \/ ~Has(resp, "data")
    \/ ~Has(resp.data, "list")
    \/ ~Has(resp.data, "references")
    \/ (Has(resp.data, "limitExceeded") /\ resp.data.limitExceeded)

\* throwIfErrorV2: TRUE when it throws
ThrowIfErrorV2(resp) ==
    \/ ~Has(resp, "data")
    \/ ~Has(resp.data, "references")

----------------------------------------------------------------------------
(* The envelopes the API may return *)

Agencies == { [id |-> "a1", name |-> AGENCY_NAME],
              [id |-> "a2", name |-> "Other Transit"],
              [id |-> "a3", name |-> AGENCY_NAME] }

Routes == { [id |-> "r1", shortName |-> ROUTE_SHORTNAME],
            [id |-> "r2", shortName |-> "7"],
            [id |-> "r3", shortName |-> ROUTE_SHORTNAME] }

\* data.list of agencies-with-coverage: coverage entries, only its presence is read
CoverageLists == { <<>>, <<[agencyId |-> "a1"]>> }

\* every data object with a non-empty subset of the properties of a full one
DataObjects(Full) ==
    { Restrict(full, ks) : full \in Full, ks \in (SUBSET {"list", "references", "limitExceeded"}) \ {{}} }

Envelopes(Full) ==
    {[code |-> 200]} \cup {[code |-> 200, data |-> d] : d \in DataObjects(Full)}

AgencyReferences ==
    {[agencies |-> as] : as \in SeqsUpTo(Agencies, 0, MaxAgencies)} \cup {[routes |-> <<>>]}

AgenciesWithCoverageResponses ==
    Envelopes([list : CoverageLists, references : AgencyReferences, limitExceeded : BOOLEAN])

RoutesForAgencyResponses ==
    Envelopes([list : SeqsUpTo(Routes, 0, MaxRoutes), references : {[agencies |-> <<>>]},
               limitExceeded : BOOLEAN])

\* references.stops of stops-for-route
StopS1 == [id |-> "s1", name |-> STOP_NAME, code |-> "101", direction |-> "E"]
StopS2 == [id |-> "s2", name |-> STOP_NAME, code |-> "102", direction |-> "W"]
StopS3 == [id |-> "s3", name |-> "Elm St", code |-> "103", direction |-> "E"]

StopReferenceLists == { <<StopS3>>, <<StopS1, StopS3>>, <<StopS1, StopS2, StopS3>> }

\* a stop group; its label is name.name
StopGroup(label, ids) ==
    [id |-> "0", name |-> [name |-> label, type |-> "destination"], stopIds |-> ids]
UnnamedStopGroup(ids) == [id |-> "0", stopIds |-> ids]

StopGroups == { StopGroup("Eastbound", <<"s1">>), StopGroup("Westbound", <<"s2">>),
                StopGroup("Westbound", <<"s1">>), StopGroup("Eastbound", <<"s2">>),
                StopGroup("Eastbound", <<"s3">>), UnnamedStopGroup(<<"s2">>),
                StopGroup("", <<"s1">>),
                [id |-> "0", name |-> [name |-> "Eastbound", type |-> "destination"]] }

\* entry.stopGroupings: one grouping of one or two groups, or two groupings that
\* list the same stop
StopGroupingLists ==
    {<<[ordered |-> TRUE]>>}
    \cup {<<[stopGroups |-> <<g>>]>> : g \in StopGroups}
    \cup {<<[stopGroups |-> <<g, h>>]>> : g, h \in StopGroups}
    \cup {<<[stopGroups |-> <<StopGroup("Eastbound", <<"s1">>)>>],
            [stopGroups |-> <<StopGroup(l, <<"s1">>)>>]>> : l \in {"Eastbound", "Inbound"}}

StopsForRouteResponses ==
    {[code |-> 200], [code |-> 200, data |-> [entry |-> [routeId |-> "r1"]]]}
    \cup {[code |-> 200, data |-> [references |-> [stops |-> <<StopS1>>]]]}
    \cup {[code |-> 200, data |-> [references |-> [agencies |-> <<>>], entry |-> [routeId |-> "r1"]]]}
    \cup {[code |-> 200, data |-> [references |-> [stops |-> refs], entry |-> [routeId |-> "r1"]]]
             : refs \in StopReferenceLists}
    \cup {[code |-> 200, data |-> [references |-> [stops |-> refs],
                                   entry |-> [routeId |-> "r1", stopGroupings |-> gs]]]
             : refs \in StopReferenceLists, gs \in StopGroupingLists}

\* arrivalsAndDepartures records.  Timestamps are epoch milliseconds.
ScheduledRecord(t) ==
    [scheduledArrivalTime |-> t, scheduledDepartureTime |-> t + 60000,
     predictedArrivalTime |-> 0, predictedDepartureTime |-> 0]
PredictedRecord(t, p) ==
    [scheduledArrivalTime |-> t, scheduledDepartureTime |-> t + 60000,
     predictedArrivalTime |-> p, predictedDepartureTime |-> p + 60000,
     tripStatus |-> [predicted |-> TRUE]]

\* the records of the pipeline's departure responses
PipelineRecords == { ScheduledRecord(600000), PredictedRecord(900000, 780000) }

\* arrivals-and-departures envelopes whose record lists are drawn from Lists
ArrivalAndDepartureResponses(Lists) ==
    {[code |-> 200], [code |-> 200, data |-> [references |-> [stops |-> <<>>]]],
     [code |-> 200, data |-> [references |-> [stops |-> <<>>], entry |-> [stopId |-> "s"]]]}
    \cup {[code |-> 200, data |-> [references |-> [stops |-> <<>>],
                                   entry |-> [stopId |-> "s", arrivalsAndDepartures |-> l]]]
             : l \in Lists}

\* records with every combination of absent, zero and set prediction fields
AnalyzerRecords ==
    { Restrict(full, {"scheduledDepartureTime"} \cup ks) :
        full \in [tripStatus : {[phase |-> "in_progress"], [predicted |-> FALSE],
                                [predicted |-> TRUE]},
                  predictedArrivalTime : {0, 780000, 900000, 900500, 4625000},
                  scheduledArrivalTime : {0, 900000},
                  predictedDepartureTime : {0, 840000},
                  scheduledDepartureTime : {960000}],
        ks \in SUBSET {"tripStatus", "predictedArrivalTime", "scheduledArrivalTime",
                       "predictedDepartureTime"} }

AnalyzerDepartureResponses ==
    ArrivalAndDepartureResponses({<<r>> : r \in AnalyzerRecords}
                                 \cup SeqsUpTo(PipelineRecords, 0, MaxRecords))

PipelineDepartureResponses ==
    ArrivalAndDepartureResponses(SeqsUpTo(PipelineRecords, 0, MaxRecords))

----------------------------------------------------------------------------
(* Formatting *)

\* formatTimestamp: new Date(ms).toLocaleString() shows the date and the time of
\* day to the second; the milliseconds are lost
FormatTimestamp(t) == "T+" \o ToString(t \div 1000) \o "s"

\* formatTimestamp(undefined)
InvalidDate == "Invalid Date"

\* parts.join(' ')
RECURSIVE Join(_)
Join(parts) ==
    IF parts = <<>> THEN ""
    ELSE IF Len(parts) = 1 THEN parts[1]
    ELSE parts[1] \o " " \o Join(Tail(parts))

FormatTimedelta_Signed(d) ==
    LET hours == d \div 3600000
        m1 == d % 3600000
        minutes == m1 \div 60000
        m2 == m1 % 60000
        seconds == m2 \div 1000
    IN  IF d < 0 THEN ""
        ELSE Join((IF hours > 0 THEN <<ToString(hours) \o "h">> ELSE <<>>)
               \o (IF minutes > 0 THEN <<ToString(minutes) \o "m">> ELSE <<>>)
               \o (IF seconds > 0 THEN <<ToString(seconds) \o "s">> ELSE <<>>))

\* formatTimedelta
FormatTimedelta(d) ==
    LET m0 == IF d < 0 THEN -d ELSE d
        hours == m0 \div 3600000
        m1 == m0 % 3600000
        minutes == m1 \div 60000
        m2 == m1 % 60000
        seconds == m2 \div 1000
        parts == (IF hours > 0 THEN <<ToString(hours) \o "h">> ELSE <<>>)
              \o (IF minutes > 0 THEN <<ToString(minutes) \o "m">> ELSE <<>>)
              \o (IF seconds > 0 THEN <<ToString(seconds) \o "s">> ELSE <<>>)
    IN  Join(parts)

\* formatTimedelta(NaN): no comparison with NaN holds, so parts stays empty
FormatTimedeltaNaN == ""

----------------------------------------------------------------------------
(* Stage 3: the stop-group cross-reference *)

\* the Stop pushed for stopRef under stopGroup; group is stopGroup.name?.name
MakeStop(stopRef, stopGroup) ==
    LET stop == [id |-> stopRef.id, name |-> stopRef.name,
                 code |-> stopRef.code, direction |-> stopRef.direction]
    IN  IF Has(stopGroup, "name") /\ Has(stopGroup.name, "name")
        THEN stop @@ [group |-> stopGroup.name.name]
        ELSE stop

\* stopRefs.forEach(stopRef => if (stopRef.id == stopId) stops.push({...}))
StopsForStopId(stopGroup, stopId, refs) ==
    Concat([j \in 1..Len(refs) |->
              IF refs[j].id = stopId THEN <<MakeStop(refs[j], stopGroup)>> ELSE <<>>],
           Len(refs))

\* stopGroup.stopIds?.forEach
StopsForStopGroup(stopGroup, refs) ==
    IF Has(stopGroup, "stopIds")
    THEN Concat([i \in 1..Len(stopGroup.stopIds) |->
                   StopsForStopId(stopGroup, stopGroup.stopIds[i], refs)],
                Len(stopGroup.stopIds))
    ELSE <<>>

\* stopGrouping.stopGroups?.forEach
StopsForStopGrouping(stopGrouping, refs) ==
    IF Has(stopGrouping, "stopGroups")
    THEN Concat([i \in 1..Len(stopGrouping.stopGroups) |->
                   StopsForStopGroup(stopGrouping.stopGroups[i], refs)],
                Len(stopGrouping.stopGroups))
    ELSE <<>>

\* entry.stopGroupings?.forEach
CrossReference(entry, refs) ==
    IF Has(entry, "stopGroupings")
    THEN Concat([i \in 1..Len(entry.stopGroupings) |->
                   StopsForStopGrouping(entry.stopGroupings[i], refs)],
                Len(entry.stopGroupings))
    ELSE <<>>

StopRefs_NoFilter(resp) == resp.data.references.stops

\* stops.filter(stop => stop.name == STOP_NAME)
StopRefs(resp) == SelectSeq(resp.data.references.stops, LAMBDA stop : stop.name = STOP_NAME)

----------------------------------------------------------------------------
(* Stage 5: the NextDeparture of one record *)

\* aNd.tripStatus?.predicted as a condition
Predicted(aNd) ==
    Has(aNd, "tripStatus") /\ Has(aNd.tripStatus, "predicted") /\ aNd.tripStatus.predicted

\* aNd[k] != 0: undefined != 0 holds
NotZero(aNd, k) == ~Has(aNd, k) \/ aNd[k] # 0

\* formatTimestamp(aNd[k])
FormatTimestampOf(aNd, k) == IF Has(aNd, k) THEN FormatTimestamp(aNd[k]) ELSE InvalidDate

\* the fields set inside "check if on-time"; a difference with undefined is NaN
OffsetFields(aNd) ==
    LET isNumber == Has(aNd, "predictedArrivalTime") /\ Has(aNd, "scheduledArrivalTime")
        timeOffset == aNd.predictedArrivalTime - aNd.scheduledArrivalTime
    IN  [predictedDepartureTime |-> FormatTimestampOf(aNd, "predictedDepartureTime"),
         timeOffset |-> IF isNumber THEN FormatTimedelta(timeOffset) ELSE FormatTimedeltaNaN,
         isEarly |-> isNumber /\ timeOffset > 0,
         isLate |-> isNumber /\ timeOffset < 0]

MakeNextDeparture(aNd) ==
    LET nextDeparture ==
            [isPredicted |-> Predicted(aNd),
             scheduledDepartureTime |-> FormatTimestampOf(aNd, "scheduledDepartureTime")]
    IN  IF Predicted(aNd) /\ NotZero(aNd, "predictedArrivalTime")
                          /\ NotZero(aNd, "scheduledArrivalTime")
        THEN nextDeparture @@ OffsetFields(aNd)
        ELSE nextDeparture

\* the truncation loop: for (i = 0; i < Math.min(length, MAX); i++)
Analyze_NoLimit(aNds, max) == [i \in 1..Len(aNds) |-> MakeNextDeparture(aNds[i])]

Analyze(aNds, max) == [i \in 1..Min(Len(aNds), max) |-> MakeNextDeparture(aNds[i])]

\* groupToNextDepartures[group] = nextDepartures: a new key goes last, an
\* existing key keeps its place and gets the new value (Object.entries lists
\* string keys in insertion order; the labels here are no array indices)
Put(map, group, value) ==
    IF \E i \in 1..Len(map) : map[i].key = group
    THEN [i \in 1..Len(map) |-> IF map[i].key = group THEN [key |-> group, value |-> value]
                                ELSE map[i]]
    ELSE Append(map, [key |-> group, value |-> value])

----------------------------------------------------------------------------
(* Stage 6: the report *)

\* the line of one NextDeparture; an unset property interpolates as "undefined"
DepartureLine(nd) ==
    IF nd.isPredicted
    THEN "  Departing at: "
         \o (IF Has(nd, "predictedDepartureTime") THEN nd.predictedDepartureTime ELSE "undefined")
         \o (IF Has(nd, "isLate") /\ nd.isLate
             THEN " (" \o nd.timeOffset \o " later than scheduled: "
                  \o nd.scheduledDepartureTime \o ")"
             ELSE IF Has(nd, "isEarly") /\ nd.isEarly
             THEN " (" \o nd.timeOffset \o " earlier than scheduled: "
                  \o nd.scheduledDepartureTime \o ")"
             ELSE "")
    ELSE "  Departing at: " \o nd.scheduledDepartureTime

\* the lines of one direction section
Section(entry) ==
    <<"Direction: " \o entry.key>>
    \o (IF Len(entry.value) = 0 THEN <<"  No departures found">>
        ELSE [i \in 1..Len(entry.value) |-> DepartureLine(entry.value[i])])

\* output, split at its "\n": it opens with an empty line
Render(name, map) ==
    <<"", "Stop: " \o name>> \o Concat([i \in 1..Len(map) |-> Section(map[i])], Len(map))

----------------------------------------------------------------------------
(* The run *)

DEPARTURES_SEARCH_MINUTES == 1440

Init ==
    /\ pc = "stage1"
    /\ requests = <<>>
    /\ response = Undefined
    /\ agency = Undefined
    /\ route = Undefined
    /\ stopRefs = <<>>
    /\ stops = <<>>
    /\ departures = <<>>
    /\ stopName = ""
    /\ depIdx = 0
    /\ nextDepartures = <<>>
    /\ groupToNextDepartures = <<>>
    /\ output = <<>>
    /\ error = ""
    /\ maxDepartures \in 0..MaxDepartures
    /\ ms = 0
    /\ timedelta = ""

Throw_Continue(msg) ==
    /\ pc' = pc
    /\ error' = msg

\* throw new Error(msg): the run ends, nothing else changes
Throw(msg) ==
    /\ pc' = "failed"
    /\ error' = msg

\* 1. Find agency by name
Stage1(Responses) ==
    /\ pc = "stage1"
    /\ requests' = Append(requests, [op |-> "agenciesWithCoverage.list"])
    /\ \E agencies \in Responses :
        /\ response' = agencies
        /\ IF ThrowIfErrorV1(agencies)
           THEN Throw("Server error") /\ UNCHANGED agency
           ELSE IF ~Has(agencies.data.references, "agencies")
           THEN Throw("TypeError") /\ UNCHANGED agency
           ELSE LET found == Find(SelectSeq(agencies.data.references.agencies,
                                            LAMBDA a : a.name = AGENCY_NAME))
                IN  IF found = Undefined
                    THEN Throw("Agency not found") /\ UNCHANGED agency
                    ELSE agency' = found /\ pc' = "stage2" /\ UNCHANGED error
    /\ UNCHANGED <<route, stopRefs, stops, departures, stopName, depIdx, nextDepartures,
                   groupToNextDepartures, output, maxDepartures, ms, timedelta>>

\* 2. Find route by short-name within the target agency
Stage2(Responses) ==
    /\ pc = "stage2"
    /\ requests' = Append(requests, [op |-> "routesForAgency.list", id |-> agency.id])
    /\ \E routes \in Responses :
        /\ response' = routes
        /\ IF ThrowIfErrorV1(routes)
           THEN Throw("Server error") /\ UNCHANGED route
           ELSE LET found == Find(SelectSeq(routes.data.list,
                                            LAMBDA r : r.shortName = ROUTE_SHORTNAME))
                IN  IF found = Undefined
                    THEN Throw("Route not found") /\ UNCHANGED route
                    ELSE route' = found /\ pc' = "stage3" /\ UNCHANGED error
    /\ UNCHANGED <<agency, stopRefs, stops, departures, stopName, depIdx, nextDepartures,
                   groupToNextDepartures, output, maxDepartures, ms, timedelta>>

\* 3. Find stop (both groups/directions) by name and route
Stage3(Responses) ==
    /\ pc = "stage3"
    /\ requests' = Append(requests, [op |-> "stopsForRoute.list", id |-> route.id])
    /\ \E stopsForRoute \in Responses :
        /\ response' = stopsForRoute
        /\ IF ThrowIfErrorV2(stopsForRoute)
           THEN Throw("Server error") /\ UNCHANGED <<stopRefs, stops>>
           ELSE IF ~Has(stopsForRoute.data.references, "stops")
           THEN Throw("TypeError") /\ UNCHANGED <<stopRefs, stops>>
           ELSE IF ~Has(stopsForRoute.data, "entry")
           THEN Throw("TypeError") /\ stopRefs' = StopRefs(stopsForRoute) /\ UNCHANGED stops
           ELSE LET built == CrossReference(stopsForRoute.data.entry, StopRefs(stopsForRoute))
                IN  /\ stopRefs' = StopRefs(stopsForRoute)
                    /\ stops' = built
                    /\ IF Len(built) = 0
                       THEN Throw("Stop groups not found")
                       ELSE pc' = "stage4" /\ UNCHANGED error
    /\ UNCHANGED <<agency, route, departures, stopName, depIdx, nextDepartures,
                   groupToNextDepartures, output, maxDepartures, ms, timedelta>>

\* 4. One iteration of "for (const stop of stops)"; the last one runs on to the
\*    emptiness checks and the start of stage 5
Stage4(Responses) ==
    /\ pc = "stage4"
    /\ Len(departures) < Len(stops)
    /\ LET stop == stops[Len(departures) + 1]
       IN  /\ requests' = Append(requests, [op |-> "arrivalAndDeparture.list", id |-> stop.id,
                                            minutesBefore |-> 0,
                                            minutesAfter |-> DEPARTURES_SEARCH_MINUTES])
           /\ \E aNds \in Responses :
               /\ response' = aNds
               /\ IF ThrowIfErrorV2(aNds)
                  THEN Throw("Server error") /\ UNCHANGED <<departures, stopName>>
                  ELSE IF ~Has(aNds.data, "entry")
                  THEN Throw("TypeError") /\ UNCHANGED <<departures, stopName>>
                  ELSE LET entry == aNds.data.entry
                           pushed == Append(departures,
                                        IF Has(entry, "arrivalsAndDepartures")
                                        THEN [stop |-> stop,
                                              arrivalsAndDepartures |-> entry.arrivalsAndDepartures]
                                        ELSE [stop |-> stop])
                       IN  /\ departures' = pushed
                           /\ IF Len(pushed) < Len(stops)
                              THEN UNCHANGED <<pc, error, stopName>>
                              ELSE IF Len(pushed) = 0
                              THEN Throw("Departures not found") /\ UNCHANGED stopName
                              ELSE /\ stopName' = pushed[1].stop.name
                                   /\ pc' = "stage5"
                                   /\ UNCHANGED error
    /\ UNCHANGED <<agency, route, stopRefs, stops, depIdx, nextDepartures, groupToNextDepartures,
                   output, maxDepartures, ms, timedelta>>

\* 5. One call of the departures.forEach callback
Stage5 ==
    /\ pc = "stage5"
    /\ depIdx < Len(departures)
    /\ LET departure == departures[depIdx + 1]
       IN  IF departure.stop.name # stopName
           THEN /\ Throw("Mismatched stop name")
                /\ UNCHANGED <<depIdx, nextDepartures, groupToNextDepartures>>
           ELSE IF ~Has(departure.stop, "group") \/ departure.stop.group = ""
           THEN /\ Throw("No group found for stopId: " \o departure.stop.id)
                /\ UNCHANGED <<depIdx, nextDepartures, groupToNextDepartures>>
           ELSE IF ~Has(departure, "arrivalsAndDepartures")
           THEN /\ Throw("TypeError")
                /\ UNCHANGED <<depIdx, nextDepartures, groupToNextDepartures>>
           ELSE LET analyzed == Analyze(departure.arrivalsAndDepartures, maxDepartures)
                IN  /\ nextDepartures' = analyzed
                    /\ groupToNextDepartures' =
                           Put(groupToNextDepartures, departure.stop.group, analyzed)
                    /\ depIdx' = depIdx + 1
                    /\ UNCHANGED <<pc, error>>
    /\ UNCHANGED <<requests, response, agency, route, stopRefs, stops, departures, stopName, output,
                   maxDepartures, ms, timedelta>>

\* 6. UI display: console.log(output)
Stage6 ==
    /\ pc = "stage5"
    /\ depIdx = Len(departures)
    /\ output' = Render(stopName, groupToNextDepartures)
    /\ pc' = "done"
    /\ UNCHANGED <<requests, response, agency, route, stopRefs, stops, departures, stopName, depIdx,
                   nextDepartures, groupToNextDepartures, error, maxDepartures, ms, timedelta>>

Next ==
    \/ Stage1(AgenciesWithCoverageResponses)
    \/ Stage2(RoutesForAgencyResponses)
    \/ Stage3(StopsForRouteResponses)
    \/ Stage4(PipelineDepartureResponses)
    \/ Stage5
    \/ Stage6

Spec == Init /\ [][Next]_vars

----------------------------------------------------------------------------
(* The run against one agency, one route and one stop in one group, with the
   departure records of every shape *)

OneAgencyResponse ==
    [code |-> 200,
     data |-> [list |-> <<[agencyId |-> "a1"]>>,
               references |-> [agencies |-> <<[id |-> "a1", name |-> AGENCY_NAME]>>],
               limitExceeded |-> FALSE]]

OneRouteResponse ==
    [code |-> 200,
     data |-> [list |-> <<[id |-> "r1", shortName |-> ROUTE_SHORTNAME]>>,
               references |-> [agencies |-> <<>>], limitExceeded |-> FALSE]]

OneStopResponse ==
    [code |-> 200,
     data |-> [references |-> [stops |-> <<StopS1, StopS3>>],
               entry |-> [routeId |-> "r1",
                          stopGroupings |->
                              <<[stopGroups |-> <<StopGroup("Eastbound", <<"s1">>)>>]>>]]]

NextAnalyzer ==
    \/ Stage1({OneAgencyResponse})
    \/ Stage2({OneRouteResponse})
    \/ Stage3({OneStopResponse})
    \/ Stage4(AnalyzerDepartureResponses)
    \/ Stage5
    \/ Stage6

SpecAnalyzer == Init /\ [][NextAnalyzer]_vars

----------------------------------------------------------------------------
(* formatTimedelta called on its own *)

\* durations of up to MaxHours hours, of either sign, with and without a
\* sub-second remainder
Durations ==
    { sign * (h * 3600000 + m * 60000 + sec * 1000 + f) :
        sign \in {-1, 1}, h \in 0..MaxHours, m \in {0, 2, 59}, sec \in {0, 5, 59},
        f \in {0, 999} }

InitTimedelta ==
    /\ pc = "formatTimedelta"
    /\ requests = <<>>
    /\ response = Undefined
    /\ agency = Undefined
    /\ route = Undefined
    /\ stopRefs = <<>>
    /\ stops = <<>>
    /\ departures = <<>>
    /\ stopName = ""
    /\ depIdx = 0
    /\ nextDepartures = <<>>
    /\ groupToNextDepartures = <<>>
    /\ output = <<>>
    /\ error = ""
    /\ maxDepartures = 0
    /\ ms \in Durations
    /\ timedelta = ""

CallFormatTimedelta ==
    /\ pc = "formatTimedelta"
    /\ timedelta' = FormatTimedelta(ms)
    /\ pc' = "returned"
    /\ UNCHANGED <<requests, response, agency, route, stopRefs, stops, departures, stopName,
                   depIdx, nextDepartures, groupToNextDepartures, output, error,
                   maxDepartures, ms>>

NextTimedelta == CallFormatTimedelta

SpecTimedelta == InitTimedelta /\ [][NextTimedelta]_vars

----------------------------------------------------------------------------
(* Properties *)

LastOp == IF requests = <<>> THEN "" ELSE requests[Len(requests)].op

\* response is a list-shaped envelope that throwIfErrorV1 has judged
ListShaped == LastOp \in {"agenciesWithCoverage.list", "routesForAgency.list"}

\* the run has built its report
Reported == pc = "done"

\* C1 as stated: a list-shaped envelope is accepted if and only if it has a data
\* object with a non-empty list, references, and no limitExceeded flag set true.
C1_AcceptsIffNonEmptyList ==
    ListShaped =>
        (error # "Server error" <=>
            /\ Has(response, "data")
            /\ Has(response.data, "list")
            /\ response.data.list # <<>>
            /\ Has(response.data, "references")
            /\ ~(Has(response.data, "limitExceeded") /\ response.data.limitExceeded))

\* C1, amended: a list-shaped envelope is accepted if and only if it has a data
\* object with a list (empty or not), references, and no limitExceeded flag set
\* true; otherwise the run ends with the server error.
C1_AcceptsIffListPresent ==
    ListShaped =>
        /\ error # "Server error" <=>
            /\ Has(response, "data")
            /\ Has(response.data, "list")
            /\ Has(response.data, "references")
            /\ ~(Has(response.data, "limitExceeded") /\ response.data.limitExceeded)
        /\ error = "Server error" => pc = "failed"

\* an empty list with references was accepted and the run went on to stage 2
C1_EmptyListAccepted ==
    /\ LastOp = "agenciesWithCoverage.list"
    /\ pc = "stage2"
    /\ response.data.list = <<>>

\* the stage whose request was issued last
LastStage ==
    CASE LastOp = "" -> 0
      [] LastOp = "agenciesWithCoverage.list" -> 1
      [] LastOp = "routesForAgency.list" -> 2
      [] LastOp = "stopsForRoute.list" -> 3
      [] LastOp = "arrivalAndDeparture.list" -> 4

\* C2: the requests go out in the order agency, route, stop groups, departures,
\* each only after the stage before it resolved a result and none twice; a stage
\* that finds no match or whose envelope fails validation ends the run with that
\* stage's error, with its own request the last one issued and no report.
C2_StagesInOrder ==
    /\ Len(requests) >= 1 => requests[1].op = "agenciesWithCoverage.list"
    /\ Len(requests) >= 2 =>
          /\ requests[2].op = "routesForAgency.list"
          /\ agency # Undefined /\ agency.name = AGENCY_NAME
          /\ requests[2].id = agency.id
    /\ Len(requests) >= 3 =>
          /\ requests[3].op = "stopsForRoute.list"
          /\ route # Undefined /\ route.shortName = ROUTE_SHORTNAME
          /\ requests[3].id = route.id
    /\ Len(requests) >= 4 =>
          /\ stops # <<>>
          /\ Len(requests) <= 3 + Len(stops)
          /\ Len(requests) <= 3 + Len(departures) + 1
          /\ \A i \in 4..Len(requests) :
                /\ requests[i].op = "arrivalAndDeparture.list"
                /\ requests[i].id = stops[i - 3].id
    \* no match, or an invalid envelope, ends the run with the stage's error
    /\ (LastStage = 1 /\ ThrowIfErrorV1(response)) => error = "Server error"
    /\ (LastStage = 1 /\ ~ThrowIfErrorV1(response)
          /\ Has(response.data.references, "agencies")
          /\ \A i \in 1..Len(response.data.references.agencies) :
                response.data.references.agencies[i].name # AGENCY_NAME)
        => error = "Agency not found"
    /\ (LastStage = 2 /\ ThrowIfErrorV1(response)) => error = "Server error"
    /\ (LastStage = 2 /\ ~ThrowIfErrorV1(response)
          /\ \A i \in 1..Len(response.data.list) :
                response.data.list[i].shortName # ROUTE_SHORTNAME)
        => error = "Route not found"
    /\ (LastStage \in {3, 4} /\ ThrowIfErrorV2(response)) => error = "Server error"
    /\ (LastStage = 3 /\ ~ThrowIfErrorV2(response)
          /\ Has(response.data.references, "stops") /\ Has(response.data, "entry")
          /\ stops = <<>>)
        => error = "Stop groups not found"
    \* the error names the stage that was running, and nothing follows it
    /\ error = "Agency not found" => LastStage = 1
    /\ error = "Route not found" => LastStage = 2
    /\ error = "Stop groups not found" => LastStage = 3
    /\ error \in {"Server error", "Agency not found", "Route not found",
                  "Stop groups not found"}
        => /\ pc = "failed"
           /\ output = <<>>
           /\ LastStage = 4 => Len(requests) = 3 + Len(departures) + 1

\* a run that stage 2 ended with "Route not found" after the agency was resolved
C2_RouteNotFound ==
    /\ error = "Route not found"
    /\ Len(requests) = 2
    /\ agency # Undefined

\* C3 as stated: the Stop list holds at most one Stop per stop id, and every
\* Stop in it has a non-empty group label.
C3_OneLabelledStopPerId ==
    /\ \A i, j \in 1..Len(stops) : stops[i].id = stops[j].id => i = j
    /\ \A i \in 1..Len(stops) : Has(stops[i], "group") /\ stops[i].group # ""

\* C4 as stated: a stop reference with the configured name whose id is in no
\* stop group makes the run fail; no report is built without it.
C4_UngroupedStopFails ==
    (\E i \in 1..Len(stopRefs) : \A j \in 1..Len(stops) : stops[j].id # stopRefs[i].id)
        => ~Reported

\* C5 as stated: a report is never produced from zero departures.
C5_NoReportFromZeroDepartures ==
    Reported => \E i \in 1..Len(departures) : departures[i].arrivalsAndDepartures # <<>>

C7_PrefixOfRecords ==
    depIdx >= 1 =>
        LET aNds == departures[depIdx].arrivalsAndDepartures
            n == Len(aNds)
        IN  /\ Len(nextDepartures) = (IF n <= maxDepartures THEN n ELSE maxDepartures)
            /\ \A i \in 1..Len(nextDepartures) :
                  /\ i <= n
                  /\ nextDepartures[i].scheduledDepartureTime
                        = FormatTimestamp(aNds[i].scheduledDepartureTime)
                  /\ nextDepartures[i].isPredicted
                        = (/\ Has(aNds[i], "tripStatus") /\ Has(aNds[i].tripStatus, "predicted")
                           /\ aNds[i].tripStatus.predicted)

\* two distinct records were cut down to the first of them
C7_Truncated ==
    /\ depIdx >= 1
    /\ maxDepartures = 1
    /\ Len(departures[depIdx].arrivalsAndDepartures) = 2
    /\ departures[depIdx].arrivalsAndDepartures[1] # departures[depIdx].arrivalsAndDepartures[2]
    /\ Len(nextDepartures) = 1

\* C8 as stated: a NextDeparture carries the offset fields if and only if the
\* predicted flag is true and both arrival timestamps are present and non-zero;
\* then isEarly is offset > 0 and isLate is offset < 0; otherwise it has only
\* scheduledDepartureTime and isPredicted.
C8_OffsetFieldsIffPredictionComplete ==
    depIdx >= 1 =>
        \A i \in 1..Len(nextDepartures) :
            LET aNd == departures[depIdx].arrivalsAndDepartures[i]
                nd == nextDepartures[i]
                complete ==
                    /\ Has(aNd, "tripStatus") /\ Has(aNd.tripStatus, "predicted")
                    /\ aNd.tripStatus.predicted
                    /\ Has(aNd, "predictedArrivalTime") /\ aNd.predictedArrivalTime # 0
                    /\ Has(aNd, "scheduledArrivalTime") /\ aNd.scheduledArrivalTime # 0
            IN  IF complete
                THEN /\ DOMAIN nd = {"isPredicted", "scheduledDepartureTime",
                                     "predictedDepartureTime", "timeOffset", "isEarly", "isLate"}
                     /\ nd.isEarly <=> aNd.predictedArrivalTime - aNd.scheduledArrivalTime > 0
                     /\ nd.isLate <=> aNd.predictedArrivalTime - aNd.scheduledArrivalTime < 0
                ELSE DOMAIN nd = {"isPredicted", "scheduledDepartureTime"}

\* a and b joined by one space, or the one that is not empty
Spaced(a, b) == IF a = "" THEN b ELSE IF b = "" THEN a ELSE a \o " " \o b

\* "<h>h <m>m <s>s" without its zero components
Components(h, m, sec) ==
    Spaced(Spaced(IF h = 0 THEN "" ELSE ToString(h) \o "h",
                  IF m = 0 THEN "" ELSE ToString(m) \o "m"),
           IF sec = 0 THEN "" ELSE ToString(sec) \o "s")

\* C9: formatTimedelta renders |d| as its whole hours, the whole minutes of the
\* remainder and the whole seconds of the remainder, the non-zero ones as "<n>h",
\* "<n>m", "<n>s" in that order with single spaces; d and -d render alike;
\* 3,725,000 ms is "1h 2m 5s", 59,000 ms is "59s" and 0 ms is "".
C9_FormatTimedelta ==
    pc = "returned" =>
        LET a == IF ms < 0 THEN 0 - ms ELSE ms
        IN  /\ \E h \in 0..MaxHours, m \in 0..59, sec \in 0..59 :
                /\ h * 3600000 + m * 60000 + sec * 1000 <= a
                /\ a < h * 3600000 + m * 60000 + sec * 1000 + 1000
                /\ timedelta = Components(h, m, sec)
            /\ timedelta = FormatTimedelta(0 - ms)
            /\ a = 3725000 => timedelta = "1h 2m 5s"
            /\ a = 59000 => timedelta = "59s"
            /\ a = 0 => timedelta = ""

\* a negative duration of 1 h 2 min 5 s was rendered
C9_NegativeRendered ==
    /\ pc = "returned"
    /\ ms = 0 - 3725000
    /\ timedelta = "1h 2m 5s"

\* the group labels of the collected StopDepartures, each once, in the order met
RECURSIVE GroupsInOrder(_)
GroupsInOrder(n) ==
    IF n = 0 THEN <<>>
    ELSE LET before == GroupsInOrder(n - 1)
             g == departures[n].stop.group
         IN  IF \E i \in 1..Len(before) : before[i] = g THEN before ELSE Append(before, g)

\* the lines of the departures of every collected stop of group g, in order
RECURSIVE LinesOfGroup(_, _)
LinesOfGroup(g, n) ==
    IF n = 0 THEN <<>>
    ELSE LinesOfGroup(g, n - 1)
         \o (IF departures[n].stop.group = g
             THEN LET nds == Analyze(departures[n].arrivalsAndDepartures, maxDepartures)
                  IN  [i \in 1..Len(nds) |-> DepartureLine(nds[i])]
             ELSE <<>>)

\* C10 as stated: the report is the stop header, then one section per group
\* label in the order first met, each a direction header and one line for every
\* departure of that group (the placeholder if it has none), so that the
\* departures of every resolved Stop appear.  Stated for the runs in which
\* every stop id was resolved once.
C10_EveryStopInReport ==
    (Reported /\ \A i, j \in 1..Len(stops) : stops[i].id = stops[j].id => i = j) =>
        LET groups == GroupsInOrder(Len(departures))
            section(g) ==
                LET lines == LinesOfGroup(g, Len(departures))
                IN  <<"Direction: " \o g>>
                    \o (IF lines = <<>> THEN <<"  No departures found">> ELSE lines)
        IN  output = <<"", "Stop: " \o stopName>>
                     \o Concat([k \in 1..Len(groups) |-> section(groups[k])], Len(groups))

\* every NextDeparture of the report, section by section
ReportedDepartures ==
    Concat([k \in 1..Len(groupToNextDepartures) |-> groupToNextDepartures[k].value],
           Len(groupToNextDepartures))

\* the time of nd's line was set on nd, and an early/late annotation has an offset to name
TimeAndOffsetSet(nd) ==
    nd.isPredicted =>
        /\ Has(nd, "predictedDepartureTime")
        /\ Has(nd, "isLate") /\ Has(nd, "isEarly") /\ Has(nd, "timeOffset")
        /\ (nd.isLate \/ nd.isEarly) => nd.timeOffset # ""

\* the line of nd as the report is meant to show it
LineOfSetTime(nd) ==
    IF nd.isPredicted
    THEN "  Departing at: " \o nd.predictedDepartureTime
         \o (IF nd.isLate
             THEN " (" \o nd.timeOffset \o " later than scheduled: "
                  \o nd.scheduledDepartureTime \o ")"
             ELSE IF nd.isEarly
             THEN " (" \o nd.timeOffset \o " earlier than scheduled: "
                  \o nd.scheduledDepartureTime \o ")"
             ELSE "")
    ELSE "  Departing at: " \o nd.scheduledDepartureTime

\* C11 as stated: every departure line of an emitted report shows a time that
\* was set on its NextDeparture: the predictedDepartureTime, which is defined,
\* when isPredicted is true, with a non-empty offset in any early/late
\* annotation, and the scheduledDepartureTime when isPredicted is false.
\* Stated for the runs whose records carry all four timestamps.
C11_LinesShowSetTimes ==
    (Reported /\ \A d \in 1..Len(departures) :
                    \A i \in 1..Len(departures[d].arrivalsAndDepartures) :
                        {"predictedArrivalTime", "scheduledArrivalTime",
                         "predictedDepartureTime", "scheduledDepartureTime"}
                            \subseteq DOMAIN departures[d].arrivalsAndDepartures[i]) =>
        /\ \A i \in 1..Len(ReportedDepartures) : TimeAndOffsetSet(ReportedDepartures[i])
        /\ output = <<"", "Stop: " \o stopName>>
              \o Concat([k \in 1..Len(groupToNextDepartures) |->
                           LET nds == groupToNextDepartures[k].value
                           IN  <<"Direction: " \o groupToNextDepartures[k].key>>
                               \o (IF Len(nds) = 0 THEN <<"  No departures found">>
                                   ELSE [i \in 1..Len(nds) |-> LineOfSetTime(nds[i])])],
                        Len(groupToNextDepartures))

====
